---- MODULE Spec2Model ----
(***************************************************************************)
(* Model of server.js (OpenAI -> NVIDIA NIM proxy): POST                  *)
(* /v1/chat/completions.  Spec and FairSpec are the response path of one   *)
(* request; LoreSpec is the lorebook matcher and injector; RequestSpec is  *)
(* the mapping of two requests to backend calls, with the probe, the       *)
(* fallback and the catch block; InFlightSpec is two streamed requests     *)
(* whose events interleave.                                                *)
(*                                                                         *)
(* Text is a sequence of characters, each character a string.  Long fixed  *)
(* pieces of the wire syntax (the JSON skeleton around a delta, a key with *)
(* its colon, the first five characters of the sentinel) are one character *)
(* of the model; everything the handler looks at (the prefix, the          *)
(* sentinel, the newline, string contents, JSON whitespace) is made of     *)
(* several, so that a chunk can be cut inside it.  The upstream body is a  *)
(* sequence of bytes: an ASCII character is its own byte, the two-byte     *)
(* character E_ACUTE is the bytes LEAD, CONT.                              *)
(***************************************************************************)
EXTENDS Naturals, Sequences, FiniteSets

VARIABLES
  SHOW_REASONING,    \* the display toggle the process was built with
  stream,            \* req.body.stream
  upstream,          \* bytes of response.data not yet delivered in a 'data' event
  received,          \* bytes delivered so far (history)
  buffer,            \* let buffer
  reasoningStarted,  \* let reasoningStarted
  processed,         \* one record per line handed to lines.forEach (history)
  pending,           \* event raised on response.data, handler not yet run
  resEnded,          \* res.end() has been called
  body,              \* response.data.choices[0].message of a non-stream call
  jsonOut,           \* choices[0].message.content passed to res.json
  ENABLE_LOREBOOK,   \* process.env.ENABLE_LOREBOOK === 'true'
  url,               \* req.url and req.originalUrl
  LOREBOOK_DATA,     \* let LOREBOOK_DATA, as loadLorebooks() left it
  arrived,           \* req.body.messages as the caller sent it (history)
  messages,          \* let messages of the handler
  relevantEntries,   \* findRelevantLoreEntries: before and after the sort (history)
  injections,        \* calls of injectLorebook made for the request (history)
  request,           \* req.body without messages, shared by the handlers in flight
  backend,           \* how the NIM API answers the probe and the main call
  handlers,          \* per request in flight: caller headers, url, position, calls made, responses
  closures           \* per streamed request in flight: the handler's local variables

streamVars == <<SHOW_REASONING, stream, upstream, received, buffer,
                reasoningStarted, processed, pending, resEnded, body, jsonOut>>
loreVars == <<ENABLE_LOREBOOK, LOREBOOK_DATA, url, arrived, messages,
              relevantEntries, injections>>
requestVars == <<request, backend, handlers>>
closureVars == <<closures>>

vars == <<streamVars, loreVars, requestVars, closureVars>>

-----------------------------------------------------------------------------
(* Bounds *)

MaxLines == 3
MaxPlain == 4
MaxChunk == 12

-----------------------------------------------------------------------------
(* Characters and bytes *)

NL == "\n"
CR == "\r"
SP == " "
QUOTE == "\""
COMMA == ","
ESC_NL == "\\n"
E_ACUTE == "e'"
FFFD == "U+FFFD"
LEAD == "0xC3"
CONT == "0xA9"

Last(s) == s[Len(s)]
Front(s) == SubSeq(s, 1, Len(s) - 1)

RECURSIVE Flatten(_)
Flatten(ss) == IF ss = <<>> THEN <<>> ELSE Head(ss) \o Flatten(Tail(ss))

\* Buffer.prototype.toString(): UTF-8 decoding of one chunk on its own.
RECURSIVE toString(_)
toString(chunk) ==
  IF chunk = <<>> THEN <<>>
  ELSE IF Head(chunk) = LEAD
       THEN IF Len(chunk) >= 2 /\ chunk[2] = CONT
            THEN <<E_ACUTE>> \o toString(Tail(Tail(chunk)))
            ELSE <<FFFD>> \o toString(Tail(chunk))
       ELSE IF Head(chunk) = CONT
            THEN <<FFFD>> \o toString(Tail(chunk))
            ELSE <<Head(chunk)>> \o toString(Tail(chunk))

\* The bytes the backend sends for a text.
RECURSIVE utf8(_)
utf8(text) ==
  IF text = <<>> THEN <<>>
  ELSE (IF Head(text) = E_ACUTE THEN <<LEAD, CONT>> ELSE <<Head(text)>>)
       \o utf8(Tail(text))

\* String.prototype.startsWith / includes / split('\n')
startsWith(s, p) == Len(s) >= Len(p) /\ SubSeq(s, 1, Len(p)) = p
includes(s, p) ==
  \E i \in 1..(Len(s) + 1) : i + Len(p) - 1 <= Len(s) /\ SubSeq(s, i, i + Len(p) - 1) = p

RECURSIVE split(_)
split(s) ==
  IF \A i \in 1..Len(s) : s[i] # NL THEN <<s>>
  ELSE LET i == CHOOSE j \in 1..Len(s) : s[j] = NL /\ \A k \in 1..(j - 1) : s[k] # NL
       IN  <<SubSeq(s, 1, i - 1)>> \o split(SubSeq(s, i + 1, Len(s)))

-----------------------------------------------------------------------------
(* Wire syntax *)

PREFIX == <<"data:", SP>>
DONE == <<"[DONE", "]">>
OPEN_DELTA == "{\"choices\":[{\"delta\":{"
CLOSE_DELTA == "}}]}"
NO_DELTA == "{\"choices\":[]}"
NULL == "null"
K_REASONING == "\"reasoning_content\":"
K_CONTENT == "\"content\":"
Keys == {K_REASONING, K_CONTENT}
THINK_OPEN == <<"<think>", NL>>
THINK_CLOSE == <<"</think>", NL, NL>>
THINK_CLOSE_FULL == <<NL, "</think>", NL, NL>>

-----------------------------------------------------------------------------
(* JavaScript values: undefined, null, or a string *)

Undefined == [t |-> "undefined", s |-> <<>>]
Null == [t |-> "null", s |-> <<>>]
Str(s) == [t |-> "string", s |-> s]
Truthy(v) == v.t = "string" /\ v.s # <<>>

\* An object is the sequence of its own properties, in insertion order.
Has(o, k) == \E i \in 1..Len(o) : o[i].k = k
Get(o, k) == IF Has(o, k) THEN o[CHOOSE i \in 1..Len(o) : o[i].k = k].v ELSE Undefined
Set(o, k, v) ==
  IF Has(o, k) THEN [i \in 1..Len(o) |-> IF o[i].k = k THEN [k |-> k, v |-> v] ELSE o[i]]
  ELSE Append(o, [k |-> k, v |-> v])
Delete(o, k) == SelectSeq(o, LAMBDA p : p.k # k)

\* Parsed payloads: null, an object without choices[0].delta, or one with it.
DataNull == [tag |-> "null", delta |-> <<>>]
DataNoDelta == [tag |-> "nodelta", delta |-> <<>>]
DataDelta(d) == [tag |-> "delta", delta |-> d]

-----------------------------------------------------------------------------
(* JSON.stringify and JSON.parse on the payloads above *)

RECURSIVE escape(_)
escape(s) ==
  IF s = <<>> THEN <<>>
  ELSE <<IF Head(s) = NL THEN ESC_NL ELSE Head(s)>> \o escape(Tail(s))

RECURSIVE unescape(_)
unescape(s) ==
  IF s = <<>> THEN <<>>
  ELSE <<IF Head(s) = ESC_NL THEN NL ELSE Head(s)>> \o unescape(Tail(s))

stringifyValue(v) ==
  IF v.t = "null" THEN <<NULL>> ELSE <<QUOTE>> \o escape(v.s) \o <<QUOTE>>

\* The members of an object; a property whose value is undefined is left out.
RECURSIVE stringifyMembers(_)
stringifyMembers(o) ==
  IF o = <<>> THEN <<>>
  ELSE IF Head(o).v.t = "undefined" THEN stringifyMembers(Tail(o))
  ELSE LET rest == stringifyMembers(Tail(o))
       IN  <<Head(o).k>> \o stringifyValue(Head(o).v)
           \o (IF rest = <<>> THEN <<>> ELSE <<COMMA>> \o rest)

stringify(data) ==
  IF data.tag = "null" THEN <<NULL>>
  ELSE IF data.tag = "nodelta" THEN <<NO_DELTA>>
  ELSE <<OPEN_DELTA>> \o stringifyMembers(data.delta) \o <<CLOSE_DELTA>>

\* JSON whitespace between tokens is skipped; inside a string it is text.
RECURSIVE skipWhitespace(_, _)
skipWhitespace(s, inString) ==
  IF s = <<>> THEN <<>>
  ELSE IF inString
       THEN <<Head(s)>> \o skipWhitespace(Tail(s), Head(s) # QUOTE)
       ELSE IF Head(s) \in {SP, CR}
            THEN skipWhitespace(Tail(s), FALSE)
            ELSE <<Head(s)>> \o skipWhitespace(Tail(s), Head(s) = QUOTE)

ParseError == [ok |-> FALSE, data |-> DataNull]

\* member (',' member)* ; a repeated key keeps its place and takes the last value.
RECURSIVE parseMembers(_, _)
parseMembers(m, acc) ==
  IF Len(m) < 2 \/ m[1] \notin Keys THEN [ok |-> FALSE, obj |-> <<>>]
  ELSE LET isNull == m[2] = NULL
           closing == IF m[2] = QUOTE /\ \E j \in 3..Len(m) : m[j] = QUOTE
                      THEN CHOOSE j \in 3..Len(m) :
                             m[j] = QUOTE /\ \A k \in 3..(j - 1) : m[k] # QUOTE
                      ELSE 0
           text == IF closing = 0 THEN <<>> ELSE SubSeq(m, 3, closing - 1)
           valid == isNull \/ (closing # 0 /\ \A k \in 1..Len(text) : text[k] # CR)
           value == IF isNull THEN Null ELSE Str(unescape(text))
           rest == IF isNull THEN SubSeq(m, 3, Len(m)) ELSE SubSeq(m, closing + 1, Len(m))
           obj == Set(acc, m[1], value)
       IN  IF ~valid THEN [ok |-> FALSE, obj |-> <<>>]
           ELSE IF rest = <<>> THEN [ok |-> TRUE, obj |-> obj]
           ELSE IF Head(rest) = COMMA THEN parseMembers(Tail(rest), obj)
           ELSE [ok |-> FALSE, obj |-> <<>>]

parse(s) ==
  LET t == skipWhitespace(s, FALSE)
  IN  IF t = <<NULL>> THEN [ok |-> TRUE, data |-> DataNull]
      ELSE IF t = <<NO_DELTA>> THEN [ok |-> TRUE, data |-> DataNoDelta]
      ELSE IF Len(t) >= 2 /\ t[1] = OPEN_DELTA /\ t[Len(t)] = CLOSE_DELTA
           THEN IF Len(t) = 2 THEN [ok |-> TRUE, data |-> DataDelta(<<>>)]
                ELSE LET r == parseMembers(SubSeq(t, 2, Len(t) - 1), <<>>)
                     IN  IF r.ok THEN [ok |-> TRUE, data |-> DataDelta(r.obj)]
                         ELSE ParseError
           ELSE ParseError

-----------------------------------------------------------------------------
(* The 'data' handler of the streamed response *)

\* combine with "reasoningStarted = false" left out of the content branch.
combineFlagStaysSet(reasoning, content, started) ==
  LET first == IF Truthy(reasoning) /\ ~started THEN THINK_OPEN \o reasoning.s
               ELSE IF Truthy(reasoning) THEN reasoning.s
               ELSE <<>>
      started1 == IF Truthy(reasoning) /\ ~started THEN TRUE ELSE started
  IN  IF Truthy(content) /\ started1
      THEN [combinedContent |-> first \o THINK_CLOSE \o content.s, started |-> started1]
      ELSE IF Truthy(content)
           THEN [combinedContent |-> first \o content.s, started |-> started1]
           ELSE [combinedContent |-> first, started |-> started1]

\* The SHOW_REASONING branch: the merged text and the flag after it.
combine(reasoning, content, started) ==
  LET first == IF Truthy(reasoning) /\ ~started THEN THINK_OPEN \o reasoning.s
               ELSE IF Truthy(reasoning) THEN reasoning.s
               ELSE <<>>
      started1 == IF Truthy(reasoning) /\ ~started THEN TRUE ELSE started
  IN  IF Truthy(content) /\ started1
      THEN [combinedContent |-> first \o THINK_CLOSE \o content.s, started |-> FALSE]
      ELSE IF Truthy(content)
           THEN [combinedContent |-> first \o content.s, started |-> started1]
           ELSE [combinedContent |-> first, started |-> started1]

\* rewriteDelta that does not keep the flag combine has set.
rewriteDeltaForgetsFlag(delta, started, show) ==
  LET reasoning == Get(delta, K_REASONING)
      content == Get(delta, K_CONTENT)
      c == combine(reasoning, content, started)
  IN  IF show
      THEN [delta |-> IF c.combinedContent # <<>>
                      THEN Delete(Set(delta, K_CONTENT, Str(c.combinedContent)), K_REASONING)
                      ELSE delta,
            started |-> started]
      ELSE [delta |-> Delete(Set(delta, K_CONTENT,
                                 IF Truthy(content) THEN content ELSE Str(<<>>)),
                             K_REASONING),
            started |-> started]

\* The rewrite of data.choices[0].delta
rewriteDelta(delta, started, show) ==
  LET reasoning == Get(delta, K_REASONING)
      content == Get(delta, K_CONTENT)
      c == combine(reasoning, content, started)
  IN  IF show
      THEN [delta |-> IF c.combinedContent # <<>>
                      THEN Delete(Set(delta, K_CONTENT, Str(c.combinedContent)), K_REASONING)
                      ELSE delta,
            started |-> c.started]
      ELSE [delta |-> Delete(Set(delta, K_CONTENT,
                                 IF Truthy(content) THEN content ELSE Str(<<>>)),
                             K_REASONING),
            started |-> started]

\* forEachLine without the startsWith test on the verbatim path: a line
\* without the prefix is written as it is.
forEachLineEchoesAll(line, started, show) ==
  LET verbatim == [line |-> line, before |-> started, after |-> started,
                   writes |-> <<line \o <<NL>>>>]
      p == parse(SubSeq(line, Len(PREFIX) + 1, Len(line)))
  IN  IF ~startsWith(line, PREFIX) \/ includes(line, DONE) THEN verbatim
      ELSE IF ~p.ok \/ p.data.tag = "null" THEN verbatim
      ELSE IF p.data.tag = "delta"
      THEN LET r == rewriteDelta(p.data.delta, started, show)
           IN  [line |-> line, before |-> started, after |-> r.started,
                writes |-> <<PREFIX \o stringify(DataDelta(r.delta)) \o <<NL, NL>>>>]
      ELSE [line |-> line, before |-> started, after |-> started,
            writes |-> <<PREFIX \o stringify(p.data) \o <<NL, NL>>>>]

\* forEachLine with an empty catch block: a line that does not decode is dropped.
forEachLineDropsMalformed(line, started, show) ==
  LET verbatim == [line |-> line, before |-> started, after |-> started,
                   writes |-> <<line \o <<NL>>>>]
      dropped == [line |-> line, before |-> started, after |-> started, writes |-> <<>>]
      p == parse(SubSeq(line, Len(PREFIX) + 1, Len(line)))
  IN  IF ~startsWith(line, PREFIX) THEN dropped
      ELSE IF includes(line, DONE) THEN verbatim
      ELSE IF ~p.ok \/ p.data.tag = "null" THEN dropped
      ELSE IF p.data.tag = "delta"
      THEN LET r == rewriteDelta(p.data.delta, started, show)
           IN  [line |-> line, before |-> started, after |-> r.started,
                writes |-> <<PREFIX \o stringify(DataDelta(r.delta)) \o <<NL, NL>>>>]
      ELSE [line |-> line, before |-> started, after |-> started,
            writes |-> <<PREFIX \o stringify(p.data) \o <<NL, NL>>>>]

\* The body of lines.forEach: the writes made for one line and the flag after.
forEachLine(line, started, show) ==
  LET verbatim == [line |-> line, before |-> started, after |-> started,
                   writes |-> <<line \o <<NL>>>>]
  IN  IF ~startsWith(line, PREFIX)
      THEN [line |-> line, before |-> started, after |-> started, writes |-> <<>>]
      ELSE IF includes(line, DONE) THEN verbatim
      ELSE LET p == parse(SubSeq(line, Len(PREFIX) + 1, Len(line)))
           IN  IF ~p.ok \/ p.data.tag = "null" THEN verbatim
               ELSE IF p.data.tag = "delta"
               THEN LET r == rewriteDelta(p.data.delta, started, show)
                    IN  [line |-> line, before |-> started, after |-> r.started,
                         writes |-> <<PREFIX \o stringify(DataDelta(r.delta)) \o <<NL, NL>>>>]
               ELSE [line |-> line, before |-> started, after |-> started,
                     writes |-> <<PREFIX \o stringify(p.data) \o <<NL, NL>>>>]

RECURSIVE forEach(_, _, _)
forEach(lines, started, show) ==
  IF lines = <<>> THEN <<>>
  ELSE LET r == forEachLine(Head(lines), started, show)
       IN  <<r>> \o forEach(Tail(lines), r.after, show)

\* onData with the last fragment read but not popped: it is kept in the
\* buffer and handled as a line as well.
onDataKeepsLast(buf, started, show, chunk) ==
  LET lines == split(buf \o toString(chunk))
      recs == forEach(lines, started, show)
  IN  [buffer |-> Last(lines),
       recs |-> recs,
       started |-> IF recs = <<>> THEN started ELSE Last(recs).after]

\* One call of the handler on a chunk, from a given buffer and flag.
onData(buf, started, show, chunk) ==
  LET lines == split(buf \o toString(chunk))
      recs == forEach(Front(lines), started, show)
  IN  [buffer |-> Last(lines),
       recs |-> recs,
       started |-> IF recs = <<>> THEN started ELSE Last(recs).after]

\* Everything written to res so far, one element per res.write call.
RECURSIVE writesOf(_)
writesOf(recs) == IF recs = <<>> THEN <<>> ELSE Head(recs).writes \o writesOf(Tail(recs))
written == writesOf(processed)

-----------------------------------------------------------------------------
(* The non-stream branch *)

\* choices.map: the content of the message handed to res.json
fullContent(message, show) ==
  LET content == IF Truthy(message.content) THEN message.content.s ELSE <<>>
  IN  IF show /\ Truthy(message.reasoning_content)
      THEN THINK_OPEN \o message.reasoning_content.s \o THINK_CLOSE_FULL \o content
      ELSE content

-----------------------------------------------------------------------------
(* Backend responses the model runs on *)

Field(k, v) == [k |-> k, v |-> v]
deltaLine(delta) == PREFIX \o stringify(DataDelta(delta))

LineReasoning == deltaLine(<<Field(K_REASONING, Str(<<"a">>))>>)
LineContent == deltaLine(<<Field(K_CONTENT, Str(<<"b">>))>>)
LineBoth == deltaLine(<<Field(K_REASONING, Str(<<"a">>)), Field(K_CONTENT, Str(<<"b">>))>>)
LineEmpty == deltaLine(<<Field(K_CONTENT, Null), Field(K_REASONING, Str(<<>>))>>)
LineAccent == deltaLine(<<Field(K_CONTENT, Str(<<E_ACUTE>>))>>)
LineQuotesDone == deltaLine(<<Field(K_REASONING, Str(DONE))>>)
LineDone == PREFIX \o DONE
LineTruncated == PREFIX \o <<OPEN_DELTA, K_CONTENT, QUOTE, "b", QUOTE>>
LineNull == PREFIX \o <<NULL>>
LineNoDelta == PREFIX \o <<NO_DELTA, CR>>
LineNoSpace == <<"data:">> \o stringify(DataDelta(<<Field(K_REASONING, Str(<<"a">>))>>))

BasicLines == {LineReasoning, LineContent}
SpecialLines == {LineBoth, LineEmpty, LineAccent, LineQuotesDone, LineDone,
                 LineTruncated, LineNull, LineNoDelta, LineNoSpace}
Lines == BasicLines \cup SpecialLines

\* Each event is followed by a blank line.
RECURSIVE wire(_)
wire(ls) == IF ls = <<>> THEN <<>> ELSE utf8(Head(ls)) \o <<NL, NL>> \o wire(Tail(ls))

\* The scripts of backend events: plain ones, made of reasoning and content
\* deltas only, and mixed ones, in which one line is a special line.
PlainScripts == UNION {[1..n -> BasicLines] : n \in 0..MaxPlain}
MixedScripts ==
  UNION {{ls \in [1..n -> Lines] :
            \E i \in 1..n : /\ ls[i] \in SpecialLines
                            /\ \A j \in (1..n) \ {i} : ls[j] \in BasicLines}
         : n \in 1..MaxLines}
Scripts == PlainScripts \cup MixedScripts

Values == {Undefined, Null, Str(<<>>), Str(<<"a">>), Str(<<"b">>)}
Messages == [reasoning_content : Values, content : Values]
NoMessage == [reasoning_content |-> Undefined, content |-> Undefined]
NotSent == [sent |-> FALSE, content |-> <<>>]

-----------------------------------------------------------------------------
(* State machine *)

\* The parts of the state a run of the stream handler does not involve.
NoLore ==
  /\ ENABLE_LOREBOOK = FALSE
  /\ LOREBOOK_DATA = <<>>
  /\ url = <<>>
  /\ arrived = <<>>
  /\ messages = <<>>
  /\ relevantEntries = [pushed |-> <<>>, sorted |-> <<>>]
  /\ injections = 0
NoRequest ==
  /\ request = <<>>
  /\ backend = <<>>
  /\ handlers = <<>>
NoClosures == closures = <<>>

Init ==
  /\ SHOW_REASONING \in BOOLEAN
  /\ stream \in BOOLEAN
  /\ IF stream
     THEN upstream \in {wire(ls) : ls \in Scripts} /\ body = NoMessage
     ELSE upstream = <<>> /\ body \in Messages
  /\ received = <<>>
  /\ buffer = <<>>
  /\ reasoningStarted = FALSE
  /\ processed = <<>>
  /\ pending = "none"
  /\ resEnded = FALSE
  /\ jsonOut = NotSent
  /\ NoLore /\ NoRequest /\ NoClosures

\* response.data.on('data', ...) called with the next n bytes
Data(n) ==
  /\ stream /\ pending = "none" /\ ~resEnded
  /\ n <= Len(upstream)
  /\ LET r == onData(buffer, reasoningStarted, SHOW_REASONING, SubSeq(upstream, 1, n))
     IN  /\ buffer' = r.buffer
         /\ reasoningStarted' = r.started
         /\ processed' = processed \o r.recs
  /\ received' = received \o SubSeq(upstream, 1, n)
  /\ upstream' = SubSeq(upstream, n + 1, Len(upstream))
  /\ UNCHANGED <<SHOW_REASONING, stream, pending, resEnded, body, jsonOut>>
  /\ UNCHANGED <<loreVars, requestVars, closureVars>>

\* The backend finishes the body: 'end' is raised.
UpstreamEnd ==
  /\ stream /\ pending = "none" /\ ~resEnded
  /\ pending' = "end"
  /\ UNCHANGED <<SHOW_REASONING, stream, upstream, received, buffer,
                 reasoningStarted, processed, resEnded, body, jsonOut>>
  /\ UNCHANGED <<loreVars, requestVars, closureVars>>

\* The connection fails: 'error' is raised.
UpstreamError ==
  /\ stream /\ pending = "none" /\ ~resEnded
  /\ pending' = "error"
  /\ UNCHANGED <<SHOW_REASONING, stream, upstream, received, buffer,
                 reasoningStarted, processed, resEnded, body, jsonOut>>
  /\ UNCHANGED <<loreVars, requestVars, closureVars>>

\* response.data.on('end', () => res.end())
OnEnd ==
  /\ pending = "end"
  /\ resEnded' = TRUE
  /\ pending' = "none"
  /\ UNCHANGED <<SHOW_REASONING, stream, upstream, received, buffer,
                 reasoningStarted, processed, body, jsonOut>>
  /\ UNCHANGED <<loreVars, requestVars, closureVars>>

\* OnError that only logs.
OnErrorOnlyLogs ==
  /\ pending = "error"
  /\ pending' = "none"
  /\ UNCHANGED <<SHOW_REASONING, stream, upstream, received, buffer,
                 reasoningStarted, processed, resEnded, body, jsonOut>>
  /\ UNCHANGED <<loreVars, requestVars, closureVars>>

\* response.data.on('error', ...): logs and calls res.end()
OnError ==
  /\ pending = "error"
  /\ resEnded' = TRUE
  /\ pending' = "none"
  /\ UNCHANGED <<SHOW_REASONING, stream, upstream, received, buffer,
                 reasoningStarted, processed, body, jsonOut>>
  /\ UNCHANGED <<loreVars, requestVars, closureVars>>

\* The else branch: res.json(openaiResponse)
NonStream ==
  /\ ~stream /\ ~jsonOut.sent
  /\ jsonOut' = [sent |-> TRUE, content |-> fullContent(body, SHOW_REASONING)]
  /\ UNCHANGED <<SHOW_REASONING, stream, upstream, received, buffer,
                 reasoningStarted, processed, pending, resEnded, body>>
  /\ UNCHANGED <<loreVars, requestVars, closureVars>>

Next ==
  \/ \E n \in 1..MaxChunk : Data(n)
  \/ UpstreamEnd
  \/ UpstreamError
  \/ OnEnd
  \/ OnError
  \/ NonStream

Spec == Init /\ [][Next]_vars

\* The event loop runs a handler whose event has been raised.
FairSpec == Spec /\ WF_vars(OnEnd) /\ WF_vars(OnError)

-----------------------------------------------------------------------------
(* What the caller and the backend see, for stating the properties *)

\* The complete lines the backend has sent so far.
upstreamLines == Front(split(toString(received)))

\* A written event without its terminating newlines.
RECURSIVE chomp(_)
chomp(w) == IF w # <<>> /\ Last(w) = NL THEN chomp(Front(w)) ELSE w

\* The payload of a line or of a written event.
payload(w) == parse(SubSeq(chomp(w), Len(PREFIX) + 1, Len(chomp(w))))

\* The line is one the handler decodes as a delta.
decodedDelta(line) ==
  /\ startsWith(line, PREFIX)
  /\ ~includes(line, DONE)
  /\ payload(line).ok
  /\ payload(line).data.tag = "delta"

textOf(v) == IF v.t = "string" THEN v.s ELSE <<>>

\* The written event carries text of the reasoning channel.
carriesReasoning(w) ==
  \E j \in 1..Len(w) :
    w[j] = K_REASONING /\ j + 2 <= Len(w) /\ w[j + 1] = QUOTE /\ w[j + 2] # QUOTE

-----------------------------------------------------------------------------
(* C1 *)

\* C1 (as claimed): with the display off, every line that decodes as a delta
\* is emitted with a content field equal to the delta's content text (the
\* empty string when it has none), and no written event carries reasoning text.
C1_DisplayOff ==
  ~SHOW_REASONING =>
    \A i \in 1..Len(processed) :
      LET rec == processed[i]
      IN  /\ decodedDelta(rec.line) =>
               /\ Len(rec.writes) = 1
               /\ payload(rec.writes[1]).ok
               /\ Get(payload(rec.writes[1]).data.delta, K_CONTENT)
                    = Str(textOf(Get(payload(rec.line).data.delta, K_CONTENT)))
          /\ \A k \in 1..Len(rec.writes) : ~carriesReasoning(rec.writes[k])

-----------------------------------------------------------------------------
(* C2 *)

\* The four transitions of the claim, applied to one delta.
C2_Expected(r, c, open) ==
  LET afterReasoning == open \/ r # <<>>
  IN  [text |-> (IF r = <<>> THEN <<>>
                 ELSE IF open THEN r ELSE THINK_OPEN \o r)
                \o (IF c = <<>> THEN <<>>
                    ELSE IF afterReasoning THEN THINK_CLOSE \o c ELSE c),
       open |-> IF c # <<>> THEN FALSE ELSE afterReasoning]

\* C2: with the display on, the content emitted for a decoded delta that
\* carries reasoning or content text is: the opening marker before reasoning
\* met while closed, reasoning raw while open, the closing marker before
\* content met while open, content raw while closed; and reasoningStarted
\* follows the same transitions.
C2_DisplayOn ==
  SHOW_REASONING =>
    \A i \in 1..Len(processed) :
      LET rec == processed[i]
          d == payload(rec.line).data.delta
          e == C2_Expected(textOf(Get(d, K_REASONING)), textOf(Get(d, K_CONTENT)), rec.before)
      IN  decodedDelta(rec.line) =>
            /\ rec.after = e.open
            /\ Len(rec.writes) = 1
            /\ payload(rec.writes[1]).ok
            /\ e.text # <<>> =>
                 Get(payload(rec.writes[1]).data.delta, K_CONTENT) = Str(e.text)

contentsWritten ==
  [i \in 1..Len(written) |->
     IF payload(written[i]).ok THEN Get(payload(written[i]).data.delta, K_CONTENT)
     ELSE Undefined]

\* The example of the claim: reasoning, content, reasoning, content.
C2_Witness ==
  /\ SHOW_REASONING
  /\ [i \in 1..Len(processed) |-> processed[i].line]
       = <<LineReasoning, <<>>, LineContent, <<>>, LineReasoning, <<>>, LineContent, <<>>>>
  /\ contentsWritten = <<Str(THINK_OPEN \o <<"a">>), Str(THINK_CLOSE \o <<"b">>),
                         Str(THINK_OPEN \o <<"a">>), Str(THINK_CLOSE \o <<"b">>)>>
  /\ ~reasoningStarted

-----------------------------------------------------------------------------
(* C3 *)

\* C3 (as claimed): however the bytes received so far were cut into chunks,
\* the text written and reasoningStarted are those of delivering them as a
\* single chunk.
C3_ChunkIndependent ==
  LET whole == onData(<<>>, FALSE, SHOW_REASONING, received)
  IN  /\ Flatten(written) = Flatten(writesOf(whole.recs))
      /\ reasoningStarted = whole.started

-----------------------------------------------------------------------------
(* C4 *)

\* C4 (as claimed): the sentinel line is written as received and nothing is
\* written after it.
C4_DoneIsLast ==
  \A i \in 1..Len(processed) :
    processed[i].line = LineDone =>
      /\ Len(processed[i].writes) = 1
      /\ chomp(processed[i].writes[1]) = LineDone
      /\ \A j \in (i + 1)..Len(processed) : processed[j].writes = <<>>

\* C4 (amended): the sentinel line is written as received, never re-encoded,
\* and it is the last line written whenever the backend has sent no line
\* with the prefix after it.
C4_DoneIsLastOfUpstream ==
  /\ \A i \in 1..Len(processed) :
       processed[i].line = LineDone =>
         /\ Len(processed[i].writes) = 1
         /\ chomp(processed[i].writes[1]) = LineDone
  /\ \A i \in 1..Len(upstreamLines) :
       (/\ upstreamLines[i] = LineDone
        /\ \A j \in (i + 1)..Len(upstreamLines) : ~startsWith(upstreamLines[j], PREFIX))
       => (written # <<>> /\ chomp(Last(written)) = LineDone)

C4_Witness ==
  /\ Len(upstreamLines) >= 4
  /\ upstreamLines[Len(upstreamLines) - 1] = LineDone
  /\ Len(written) >= 2
  /\ chomp(Last(written)) = LineDone
  /\ resEnded

-----------------------------------------------------------------------------
(* C5 *)

malformed(line) ==
  startsWith(line, PREFIX) /\ ~includes(line, DONE) /\ ~payload(line).ok

\* A text with the character a chunk boundary can cut replaced by what the
\* cut leaves of it.
RECURSIVE blur(_)
blur(s) ==
  IF s = <<>> THEN <<>>
  ELSE (IF Head(s) = E_ACUTE THEN <<FFFD, FFFD>> ELSE <<Head(s)>>) \o blur(Tail(s))

\* C5: in both display modes a line with the prefix whose payload does not
\* decode is written once, as it is, and leaves reasoningStarted as it was;
\* every complete line received, before or after it, has been handled (one
\* write if it has the prefix), and the buffer holds the text received after
\* the last newline.
C5_FailOpen ==
  /\ \A i \in 1..Len(processed) :
       malformed(processed[i].line) =>
         /\ Len(processed[i].writes) = 1
         /\ chomp(processed[i].writes[1]) = processed[i].line
         /\ processed[i].after = processed[i].before
  /\ Len(processed) = Len(upstreamLines)
  /\ \A i \in 1..Len(processed) :
       startsWith(processed[i].line, PREFIX) => Len(processed[i].writes) = 1
  /\ blur(buffer) = blur(Last(split(toString(received))))

C5_Witness ==
  \E i \in 1..Len(processed) : \E j \in (i + 1)..Len(processed) :
    /\ malformed(processed[i].line)
    /\ processed[i].before
    /\ processed[i].writes = <<processed[i].line \o <<NL>>>>
    /\ decodedDelta(processed[j].line)
    /\ processed[j].writes # <<>>

-----------------------------------------------------------------------------
(* C6 *)

\* C6 (as claimed): every written event is the prefix, a payload without a
\* newline, and two newlines.
C6_Framing ==
  \A k \in 1..Len(written) :
    LET w == written[k]
    IN  /\ startsWith(w, PREFIX)
        /\ Len(w) >= Len(PREFIX) + 2
        /\ w[Len(w)] = NL /\ w[Len(w) - 1] = NL
        /\ \A j \in 1..(Len(w) - 2) : w[j] # NL

-----------------------------------------------------------------------------
(* C7 *)

\* C7: the lines handled are the complete lines received, each once and in
\* order (a character cut by a chunk boundary aside); a line makes one write
\* if it has the prefix and none otherwise; a line without the prefix leaves
\* reasoningStarted as it was; and the flag passes from each line to the next.
C7_OrderExactlyOnce ==
  /\ Len(processed) = Len(upstreamLines)
  /\ \A i \in 1..Len(processed) :
       /\ blur(processed[i].line) = blur(upstreamLines[i])
       /\ Len(processed[i].writes) = (IF startsWith(upstreamLines[i], PREFIX) THEN 1 ELSE 0)
       /\ ~startsWith(upstreamLines[i], PREFIX) => processed[i].after = processed[i].before
       /\ processed[i].before = (IF i = 1 THEN FALSE ELSE processed[i - 1].after)
  /\ reasoningStarted = (IF processed = <<>> THEN FALSE ELSE Last(processed).after)

C7_Witness ==
  /\ \E i \in 1..Len(processed) :
       /\ processed[i].line = LineNoSpace
       /\ processed[i].before
       /\ processed[i].writes = <<>>
  /\ Len(written) = 1
  /\ startsWith(buffer, PREFIX)
  /\ Len(buffer) > Len(PREFIX)

-----------------------------------------------------------------------------
(* C8 *)

\* C8 (as claimed): in both modes the event emitted for a decoded delta has
\* no reasoning field, and with the display on its content is the merged text.
C8_ReasoningRemoved ==
  \A i \in 1..Len(processed) :
    LET rec == processed[i]
        d == payload(rec.line).data.delta
        e == C2_Expected(textOf(Get(d, K_REASONING)), textOf(Get(d, K_CONTENT)), rec.before)
    IN  decodedDelta(rec.line) =>
          /\ Len(rec.writes) = 1
          /\ payload(rec.writes[1]).ok
          /\ ~Has(payload(rec.writes[1]).data.delta, K_REASONING)
          /\ SHOW_REASONING =>
               Get(payload(rec.writes[1]).data.delta, K_CONTENT) = Str(e.text)

-----------------------------------------------------------------------------
(* C9 *)

\* C9: once 'end' or 'error' has been raised the output is eventually closed;
\* nothing is written by the closing handler (no residual buffer text, no
\* error event) or after it.
C9_Termination ==
  /\ [][(pending # "none" \/ resEnded) => processed' = processed]_vars
  /\ [][resEnded => resEnded']_vars
  /\ (pending # "none") ~> resEnded

C9_Witness ==
  /\ resEnded
  /\ startsWith(buffer, PREFIX)
  /\ Len(buffer) > Len(PREFIX)
  /\ written # <<>>

-----------------------------------------------------------------------------
(* C10 *)

\* The content fields the stream handler emits for {reasoning}, {content}.
RECURSIVE contentTexts(_)
contentTexts(ws) ==
  IF ws = <<>> THEN <<>>
  ELSE textOf(Get(payload(Head(ws)).data.delta, K_CONTENT)) \o contentTexts(Tail(ws))

streamedContent(message, show) ==
  contentTexts(writesOf(forEach(
    <<deltaLine(<<Field(K_REASONING, message.reasoning_content)>>),
      deltaLine(<<Field(K_CONTENT, message.content)>>)>>, FALSE, show)))

\* C10 (as claimed): the content of a non-stream response is the
\* concatenation of what the stream handler emits for the same reasoning and
\* content sent as two deltas.
C10_SamePolicy ==
  jsonOut.sent => jsonOut.content = streamedContent(body, SHOW_REASONING)

-----------------------------------------------------------------------------
(* Lorebook: findRelevantLoreEntries and injectLorebook                    *)
(*                                                                         *)
(* A word, a directive opener and a title are one character each; the      *)
(* space, the newline and the closing ">" are characters of their own, so  *)
(* that the regular expressions, trim() and the joins act on them.         *)

MaxMessages == 2

LB_OPEN == "<lorebook:"
DIS_OPEN == "<disable_lorebook:"
GT == ">"
LORE_HEADER == "[Lorebook Context]"

\* String.prototype.toLowerCase, character by character
lowerChar(c) ==
  CASE c = "Dragon" -> "dragon"
    [] c = "Myth" -> "myth"
    [] c = "Tech" -> "tech"
    [] c = "Void" -> "void"
    [] c = "Seal" -> "seal"
    [] c = "GPT-4" -> "gpt-4"
    [] c = "Claude" -> "claude"
    [] c = "<LOREBOOK:" -> LB_OPEN
    [] c = "<DISABLE_LOREBOOK:" -> DIS_OPEN
    [] OTHER -> c
toLowerCase(text) == [i \in 1..Len(text) |-> lowerChar(text[i])]

\* String.prototype.trim
RECURSIVE trimStart(_)
trimStart(text) ==
  IF text # <<>> /\ Head(text) \in {SP, NL} THEN trimStart(Tail(text)) ELSE text
RECURSIVE trimEnd(_)
trimEnd(text) ==
  IF text # <<>> /\ Last(text) \in {SP, NL} THEN trimEnd(Front(text)) ELSE text
trim(text) == trimEnd(trimStart(text))

\* Array.prototype.join
RECURSIVE join(_, _)
join(texts, sep) ==
  IF texts = <<>> THEN <<>>
  ELSE IF Len(texts) = 1 THEN texts[1]
  ELSE texts[1] \o sep \o join(Tail(texts), sep)

\* text.match(/<open([^>]+)>/gi) from position i on: the opener in any
\* case, one or more characters other than ">", then ">"; the search goes
\* on after a match, and one position further where there is none.
RECURSIVE matchFrom(_, _, _)
matchFrom(text, open, i) ==
  IF i > Len(text) THEN <<>>
  ELSE IF lowerChar(text[i]) # open THEN matchFrom(text, open, i + 1)
  ELSE LET closers == {j \in (i + 1)..Len(text) : text[j] = GT}
           j == CHOOSE c \in closers : \A d \in closers : c <= d
       IN  IF closers = {} \/ j = i + 1
           THEN matchFrom(text, open, i + 1)
           ELSE <<SubSeq(text, i, j)>> \o matchFrom(text, open, j + 1)

\* match.replace(/<open|>/gi, '').trim().toLowerCase()
titleOf(match, open) ==
  toLowerCase(trim(SelectSeq(match, LAMBDA c : lowerChar(c) # open /\ c # GT)))

\* The Set filled by forEach over the matches of one directive.
titlesNamed(text, open) ==
  LET ms == matchFrom(text, open, 1)
  IN  {titleOf(ms[i], open) : i \in 1..Len(ms)}

conversationText(msgs) == join([i \in 1..Len(msgs) |-> msgs[i].content], <<SP>>)
activeLorebooks(msgs) == titlesNamed(conversationText(msgs), LB_OPEN)
disabledLorebooks(msgs) == titlesNamed(conversationText(msgs), DIS_OPEN)
useAllLorebooks(msgs) == activeLorebooks(msgs) = {}

\* lorebookUsed with the activation test made first.
lorebookUsedActivationFirst(lorebook, msgs) ==
  LET lorebookTitleLower == toLowerCase(lorebook.title)
  IN  \/ lorebookTitleLower \in activeLorebooks(msgs)
      \/ useAllLorebooks(msgs) /\ lorebookTitleLower \notin disabledLorebooks(msgs)

\* The two early returns of the forEach over LOREBOOK_DATA do not fire.
lorebookUsed(lorebook, msgs) ==
  LET lorebookTitleLower == toLowerCase(lorebook.title)
  IN  /\ lorebookTitleLower \notin disabledLorebooks(msgs)
      /\ useAllLorebooks(msgs) \/ lorebookTitleLower \in activeLorebooks(msgs)

\* entry.keys.some(...)
hasMatch(entry, msgs) ==
  \E k \in 1..Len(entry.keys.a) :
    IF entry.case_sensitive
    THEN includes(conversationText(msgs), entry.keys.a[k])
    ELSE includes(toLowerCase(conversationText(msgs)), toLowerCase(entry.keys.a[k]))

\* entry.order || 0
orderOf(entry) == IF entry.order.t = "number" THEN entry.order.n ELSE 0

\* The forEach over Object.values(lorebook.entries), from entry i on.
RECURSIVE entriesPushed(_, _, _)
entriesPushed(lorebook, msgs, i) ==
  IF i > Len(lorebook.entries) THEN <<>>
  ELSE LET entry == lorebook.entries[i]
       IN  (IF entry.keys.t = "array" /\ hasMatch(entry, msgs) /\ entry.content # <<>>
            THEN <<[content |-> entry.content, comment |-> entry.comment,
                    order |-> orderOf(entry), lorebook |-> lorebook.title]>>
            ELSE <<>>)
           \o entriesPushed(lorebook, msgs, i + 1)

\* The forEach over LOREBOOK_DATA, from lorebook b on.
RECURSIVE lorebooksPushed(_, _)
lorebooksPushed(msgs, b) ==
  IF b > Len(LOREBOOK_DATA) THEN <<>>
  ELSE (IF lorebookUsed(LOREBOOK_DATA[b], msgs)
        THEN entriesPushed(LOREBOOK_DATA[b], msgs, 1)
        ELSE <<>>)
       \o lorebooksPushed(msgs, b + 1)

\* relevantEntries as it is before the sort
pushedEntries(msgs) ==
  IF ~ENABLE_LOREBOOK \/ Len(LOREBOOK_DATA) = 0 THEN <<>>
  ELSE lorebooksPushed(msgs, 1)

\* insert with the entry put before the entries of its own order.
RECURSIVE insertBeforeEqual(_, _)
insertBeforeEqual(sorted, e) ==
  IF sorted = <<>> THEN <<e>>
  ELSE IF Last(sorted).order < e.order THEN Append(sorted, e)
  ELSE Append(insertBeforeEqual(Front(sorted), e), Last(sorted))

\* One entry put into a sorted array, after the entries that do not
\* compare greater (a.order - b.order <= 0).
RECURSIVE insert(_, _)
insert(sorted, e) ==
  IF sorted = <<>> THEN <<e>>
  ELSE IF Last(sorted).order <= e.order THEN Append(sorted, e)
  ELSE Append(insert(Front(sorted), e), Last(sorted))

\* sort left out.
sortMissing(entries) == entries

\* relevantEntries.sort((a, b) => a.order - b.order); the sort is stable
RECURSIVE sort(_)
sort(entries) ==
  IF entries = <<>> THEN <<>> ELSE insert(sort(Front(entries)), Last(entries))

findRelevantLoreEntries(msgs) == sort(pushedEntries(msgs))

lorebookContext(entries) ==
  join([i \in 1..Len(entries) |-> entries[i].content], <<NL, NL>>)

\* systemMessageIndex finding the last system message.
systemMessageIndexLast(msgs) ==
  IF \E i \in 1..Len(msgs) : msgs[i].role = "system"
  THEN CHOOSE i \in 1..Len(msgs) :
         /\ msgs[i].role = "system"
         /\ \A j \in (i + 1)..Len(msgs) : msgs[j].role # "system"
  ELSE 0

\* messages.findIndex(m => m.role === 'system'), 0 for JavaScript's -1
systemMessageIndex(msgs) ==
  IF \E i \in 1..Len(msgs) : msgs[i].role = "system"
  THEN CHOOSE i \in 1..Len(msgs) :
         /\ msgs[i].role = "system"
         /\ \A j \in 1..(i - 1) : msgs[j].role # "system"
  ELSE 0

\* injectLorebook that goes on without entries.
injectLorebookAlways(msgs) ==
  LET entries == findRelevantLoreEntries(msgs)
      context == lorebookContext(entries)
      at == systemMessageIndex(msgs)
  IN  IF ~ENABLE_LOREBOOK THEN msgs
      ELSE IF at >= 1
      THEN [msgs EXCEPT ![at].content = @ \o <<NL, NL, LORE_HEADER, NL>> \o context]
      ELSE <<[role |-> "system", content |-> <<LORE_HEADER, NL>> \o context]>> \o msgs

injectLorebook(msgs) ==
  LET entries == findRelevantLoreEntries(msgs)
      context == lorebookContext(entries)
      at == systemMessageIndex(msgs)
  IN  IF ~ENABLE_LOREBOOK THEN msgs
      ELSE IF Len(entries) = 0 THEN msgs
      ELSE IF at >= 1
      THEN [msgs EXCEPT ![at].content = @ \o <<NL, NL, LORE_HEADER, NL>> \o context]
      ELSE <<[role |-> "system", content |-> <<LORE_HEADER, NL>> \o context]>> \o msgs

-----------------------------------------------------------------------------
(* Lorebook: the conversations and the loaded files the model ranges over *)

Number(n) == [t |-> "number", n |-> n]
NoNumber == [t |-> "undefined", n |-> 0]
Keywords(ks) == [t |-> "array", a |-> ks]
NoKeywords == [t |-> "undefined", a |-> <<>>]

EntryDragon ==
  [keys |-> Keywords(<<<<"dragon">>>>), case_sensitive |-> FALSE,
   content |-> <<"fire", SP, "elf">>, comment |-> <<>>, order |-> Number(2)]
EntryProper ==
  [keys |-> Keywords(<<<<"Dragon">>>>), case_sensitive |-> TRUE,
   content |-> <<"Smaug">>, comment |-> <<"note">>, order |-> NoNumber]
EntryElf ==
  [keys |-> Keywords(<<<<"elf">>, <<"Dragon">>>>), case_sensitive |-> FALSE,
   content |-> <<"forest">>, comment |-> <<>>, order |-> Number(2)]
EntryBlank ==
  [keys |-> Keywords(<<<<"dragon">>>>), case_sensitive |-> FALSE,
   content |-> <<>>, comment |-> <<>>, order |-> Number(1)]
EntryKeyless ==
  [keys |-> NoKeywords, case_sensitive |-> FALSE,
   content |-> <<"orphan">>, comment |-> <<>>, order |-> Number(0)]

EntrySeal ==
  [keys |-> Keywords(<<<<"elf">>>>), case_sensitive |-> FALSE,
   content |-> <<"<DISABLE_LOREBOOK:", "Seal", GT>>, comment |-> <<>>, order |-> Number(1)]

Myth == [title |-> <<"Myth">>, author |-> <<"Unknown">>,
         entries |-> <<EntryDragon, EntryProper>>]
Tech == [title |-> <<"Tech">>, author |-> <<"Unknown">>,
         entries |-> <<EntryKeyless, EntryElf, EntryBlank>>]
Void == [title |-> <<"Void">>, author |-> <<"Unknown">>,
         entries |-> <<EntryBlank>>]
Seal == [title |-> <<"Seal">>, author |-> <<"Unknown">>,
         entries |-> <<EntrySeal>>]
Libraries == {<<>>, <<Myth>>, <<Myth, Tech>>, <<Tech, Myth>>, <<Myth, Void>>, <<Seal>>}

Directives ==
  {<<"<lorebook:", SP, "Myth", SP, GT>>,
   <<"<LOREBOOK:", "tech", GT>>,
   <<"<DISABLE_LOREBOOK:", "Myth", GT>>}
Words == {<<"dragon">>, <<"Dragon">>, <<"elf">>, <<"hello">>}
Contents == Words \cup Directives \cup {d \o <<SP, "dragon">> : d \in Directives}
ChatMessages == [role : {"system", "user"}, content : Contents]
Conversations == UNION {[1..n -> ChatMessages] : n \in 1..MaxMessages}

-----------------------------------------------------------------------------
(* Lorebook: state machine *)

CHAT_URL == <<"/v1/chat/completions">>
PROXY_URL == <<"/proxy", "/v1/chat/completions">>

NoStream ==
  /\ SHOW_REASONING = FALSE
  /\ stream = FALSE
  /\ upstream = <<>>
  /\ received = <<>>
  /\ buffer = <<>>
  /\ reasoningStarted = FALSE
  /\ processed = <<>>
  /\ pending = "none"
  /\ resEnded = FALSE
  /\ body = NoMessage
  /\ jsonOut = NotSent

\* The process after loadLorebooks(), with one request's body parsed.
LoreInit ==
  /\ ENABLE_LOREBOOK \in BOOLEAN
  /\ IF ENABLE_LOREBOOK THEN LOREBOOK_DATA \in Libraries ELSE LOREBOOK_DATA = <<>>
  /\ \E u \in {CHAT_URL, PROXY_URL} : url = [url |-> u, originalUrl |-> u]
  /\ arrived \in Conversations
  /\ messages = arrived
  /\ relevantEntries = [pushed |-> <<>>, sorted |-> <<>>]
  /\ injections = 0
  /\ NoStream /\ NoRequest /\ NoClosures

\* app.post('/proxy/v1/chat/completions'): req.url is rewritten and the
\* request handed to the router again.
ProxyRoute ==
  /\ url.url = PROXY_URL
  /\ url' = [url EXCEPT !.url = CHAT_URL]
  /\ UNCHANGED <<ENABLE_LOREBOOK, LOREBOOK_DATA, arrived, messages,
                 relevantEntries, injections>>
  /\ UNCHANGED <<streamVars, requestVars, closureVars>>

\* app.post('/v1/chat/completions'): messages = injectLorebook(messages),
\* the handler's one call
InjectLorebook ==
  /\ url.url = CHAT_URL
  /\ injections = 0
  /\ messages' = injectLorebook(messages)
  /\ relevantEntries' = [pushed |-> pushedEntries(messages),
                         sorted |-> findRelevantLoreEntries(messages)]
  /\ injections' = injections + 1
  /\ UNCHANGED <<ENABLE_LOREBOOK, LOREBOOK_DATA, url, arrived>>
  /\ UNCHANGED <<streamVars, requestVars, closureVars>>

LoreNext == ProxyRoute \/ InjectLorebook

LoreSpec == LoreInit /\ [][LoreNext]_vars

-----------------------------------------------------------------------------
(* Request mapping: alias table, probe, fallback, nimRequest, the catch    *)
(*                                                                         *)
(* A model name is text whose characters are the pieces the fallback       *)
(* searches for.  The temperature is counted in tenths.                    *)

DEFAULT_TEMPERATURE == 6
DEFAULT_MAX_TOKENS == 9024
GENERIC_STATUS == 500
NIM_API_KEY == <<"nvapi-server-key">>

Boolean(b) == [t |-> "boolean", b |-> b]
NoBoolean == [t |-> "undefined", b |-> FALSE]
NoModel == <<>>

\* MODEL_MAPPING[model], NoModel for undefined
MODEL_MAPPING(model) ==
  CASE model = <<"gpt-3.5-turbo">> -> <<"meta/llama-3.1-8b-instruct">>
    [] model = <<"gpt-4">> -> <<"deepseek-ai/deepseek-v3.1-terminus">>
    [] model = <<"gpt-4", "-turbo">> -> <<"xai/grok-4-0709">>
    [] model = <<"gpt-4", "o">> -> <<"deepseek-ai/deepseek-v3.1">>
    [] model = <<"claude", "-3", "-opus">> -> <<"meta/llama-3.1-405b-instruct">>
    [] model = <<"claude", "-3", "-sonnet">> -> <<"meta/llama-3.1-70b-instruct">>
    [] model = <<"gemini", "-pro">> -> <<"mistralai/mistral-large-2-instruct">>
    [] OTHER -> NoModel

\* The if / else if / else on modelLower
fallbackModel(model) ==
  LET modelLower == toLowerCase(model)
  IN  IF \/ includes(modelLower, <<"gpt-4">>)
         \/ includes(modelLower, <<"claude", "-opus">>)
         \/ includes(modelLower, <<"405b">>)
      THEN <<"meta/llama-3.1-405b-instruct">>
      ELSE IF \/ includes(modelLower, <<"claude">>)
              \/ includes(modelLower, <<"gemini">>)
              \/ includes(modelLower, <<"70b">>)
      THEN <<"meta/llama-3.1-70b-instruct">>
      ELSE <<"meta/llama-3.1-8b-instruct">>

\* nimModel after the probe has been answered
probedModel(model, answer) ==
  IF answer = "2xx" THEN model ELSE fallbackModel(model)

\* authorizationHeader that passes the caller's header on when there is one.
authorizationHeaderForwarded(req) ==
  IF req.Authorization # <<>> THEN req.Authorization ELSE <<"Bearer", SP>> \o NIM_API_KEY

\* The Authorization header of both axios.post calls
authorizationHeader(req) == <<"Bearer", SP>> \o NIM_API_KEY

\* The probe: body and headers of the first axios.post
probeCall(req, handler) ==
  [body |-> [model |-> req.model,
             messages |-> <<[role |-> "user", content |-> <<"test">>]>>,
             temperature |-> NoNumber,
             max_tokens |-> Number(1),
             extra_body |-> FALSE,
             stream |-> NoBoolean],
   Authorization |-> authorizationHeader(handler),
   responseType |-> "json"]

\* temperature || 0.6, max_tokens || 9024: 0 and undefined are falsy
orDefault(value, default) ==
  IF value.t = "number" /\ value.n # 0 THEN value ELSE Number(default)

\* stream || false
orFalse(value) == IF value.t = "boolean" /\ value.b THEN value ELSE Boolean(FALSE)

\* const nimRequest = {...}
nimRequest(req, handler) ==
  [model |-> handler.nimModel,
   messages |-> handler.messages,
   temperature |-> orDefault(req.temperature, DEFAULT_TEMPERATURE),
   max_tokens |-> orDefault(req.max_tokens, DEFAULT_MAX_TOKENS),
   extra_body |-> TRUE,
   stream |-> orFalse(req.stream)]

\* The main call: body and configuration of the second axios.post
mainCall(req, handler) ==
  [body |-> nimRequest(req, handler),
   Authorization |-> authorizationHeader(handler),
   responseType |-> IF req.stream.t = "boolean" /\ req.stream.b THEN "stream" ELSE "json"]

\* statusOf that ignores the upstream response.
statusOfGeneric(error) == GENERIC_STATUS

\* error.response?.status || 500
statusOf(error) ==
  IF error.response /\ error.status # 0 THEN error.status ELSE GENERIC_STATUS

\* The catch block: res.status(...).json({error: {...}})
errorEnvelope(error) ==
  [status |-> statusOf(error),
   error |-> [message |-> error.message,
              type |-> "invalid_request_error",
              code |-> statusOf(error)]]

\* What the caller gets when the main call resolves.
completion(req) ==
  [status |-> 200,
   error |-> [message |-> <<>>, type |-> "none", code |-> 0]]

-----------------------------------------------------------------------------
(* Request mapping: requests, backend behaviour, state machine *)

Slots == {1, 2}

ModelNames ==
  {<<"gpt-4", "o">>, <<"GPT-4", "-32k">>, <<"Claude", "-opus", "-4">>,
   <<"Claude", "-haiku">>, <<"mistral">>}
Requests ==
  [model : ModelNames,
   temperature : {NoNumber, Number(0), Number(7)},
   max_tokens : {NoNumber, Number(0), Number(256)},
   stream : {NoBoolean, Boolean(FALSE), Boolean(TRUE)}]

\* The probe is answered 2xx, 4xx (resolved: validateStatus), or it throws.
ProbeAnswers == {"2xx", "4xx", "throws"}
\* The main call resolves, or rejects with or without a response.
Resolved == [ok |-> TRUE, response |-> TRUE, status |-> 200, message |-> <<>>]
Rejected(status) ==
  [ok |-> FALSE, response |-> TRUE, status |-> status,
   message |-> <<"Request failed with status code">>]
Unreachable ==
  [ok |-> FALSE, response |-> FALSE, status |-> 0, message |-> <<"ECONNREFUSED">>]
CallAnswers == {Resolved, Rejected(429), Rejected(503), Unreachable}

CallerKeys == {<<>>, <<"Bearer", SP, "sk-caller">>}
OtherKey == <<"Bearer", SP, "sk-other">>

Arriving(authorization, u) ==
  [Authorization |-> authorization, url |-> u, originalUrl |-> u,
   at |-> "routing", messages |-> <<>>, nimModel |-> NoModel,
   calls |-> <<>>, responses |-> <<>>]

\* Two requests with the same body arrive; they differ in the caller's
\* credential and in the route.
RequestInit ==
  /\ request \in Requests
  /\ backend \in [probe : ProbeAnswers, call : CallAnswers]
  /\ \E k \in CallerKeys, u1, u2 \in {CHAT_URL, PROXY_URL} :
       handlers = [r \in Slots |->
                     IF r = 1 THEN Arriving(k, u1) ELSE Arriving(OtherKey, u2)]
  /\ ENABLE_LOREBOOK = FALSE
  /\ LOREBOOK_DATA = <<>>
  /\ url = <<>>
  /\ arrived = <<[role |-> "user", content |-> <<"hello">>]>>
  /\ messages = <<>>
  /\ relevantEntries = [pushed |-> <<>>, sorted |-> <<>>]
  /\ injections = 0
  /\ NoStream /\ NoClosures

\* app.post('/proxy/v1/chat/completions') for the request in slot r
Reroute(r) ==
  /\ handlers[r].at = "routing"
  /\ handlers[r].url = PROXY_URL
  /\ handlers' = [handlers EXCEPT ![r].url = CHAT_URL]
  /\ UNCHANGED <<request, backend, streamVars, loreVars, closureVars>>

\* The handler up to its first await: the body is read, the lorebook
\* injected, the alias table looked up.
Lookup(r) ==
  /\ handlers[r].at = "routing"
  /\ handlers[r].url = CHAT_URL
  /\ handlers' = [handlers EXCEPT
                    ![r].messages = injectLorebook(arrived),
                    ![r].nimModel = MODEL_MAPPING(request.model),
                    ![r].at = IF MODEL_MAPPING(request.model) = NoModel
                              THEN "probe" ELSE "call"]
  /\ UNCHANGED <<request, backend, streamVars, loreVars, closureVars>>

\* The probe is sent and answered; without a 2xx answer the fallback
\* chooses the model.
Probe(r) ==
  /\ handlers[r].at = "probe"
  /\ handlers' = [handlers EXCEPT
                    ![r].calls = Append(@, probeCall(request, handlers[r])),
                    ![r].nimModel = probedModel(request.model, backend.probe),
                    ![r].at = "call"]
  /\ UNCHANGED <<request, backend, streamVars, loreVars, closureVars>>

\* What the handler sends the caller once the main call is answered.
answerTo(req, answer) ==
  IF answer.ok THEN completion(req) ELSE errorEnvelope(answer)

\* The main call is sent and answered: the response is relayed, or the
\* catch block sends the error envelope.
Call(r) ==
  /\ handlers[r].at = "call"
  /\ handlers' = [handlers EXCEPT
                    ![r].calls = Append(@, mainCall(request, handlers[r])),
                    ![r].responses = Append(@, answerTo(request, backend.call)),
                    ![r].at = "done"]
  /\ UNCHANGED <<request, backend, streamVars, loreVars, closureVars>>

RequestNext == \E r \in Slots : Reroute(r) \/ Lookup(r) \/ Probe(r) \/ Call(r)

RequestSpec == RequestInit /\ [][RequestNext]_vars

-----------------------------------------------------------------------------
(* Streamed requests in flight together *)

\* Each run of the handler declares its own buffer and reasoningStarted.
closureShared(r) == 1

\* The variables the 'data' handler of the request in slot r closes over.
closureOf(r) == r

\* One or two plain lines for each backend response.
InFlightScripts == {ls \in PlainScripts : Len(ls) \in {1, 2} /\ \A i \in 1..Len(ls) : ls[i] # LineEmpty}

\* The sizes in which the backend's bytes arrive.
ChunkSizes == {MaxChunk \div 2, MaxChunk}

\* The request of slot r as its handler starts.
InFlight(r, ls) ==
  [at |-> "arrived",
   messages |-> <<[role |-> "user",
                   content |-> IF r = 1 THEN <<"dragon">> ELSE <<"hello">>]>>,
   upstream |-> wire(ls), received |-> <<>>, chunks |-> <<>>,
   buffer |-> <<>>, reasoningStarted |-> FALSE,
   processed |-> <<>>, resEnded |-> FALSE]

InFlightInit ==
  /\ SHOW_REASONING \in BOOLEAN
  /\ \E ls1, ls2 \in InFlightScripts :
       closures = [r \in Slots |-> IF r = 1 THEN InFlight(1, ls1) ELSE InFlight(2, ls2)]
  /\ ENABLE_LOREBOOK = TRUE
  /\ LOREBOOK_DATA = <<Myth, Tech>>
  /\ url = <<>>
  /\ arrived = <<>>
  /\ messages = <<>>
  /\ relevantEntries = [pushed |-> <<>>, sorted |-> <<>>]
  /\ injections = 0
  /\ stream = TRUE
  /\ upstream = <<>>
  /\ received = <<>>
  /\ buffer = <<>>
  /\ reasoningStarted = FALSE
  /\ processed = <<>>
  /\ pending = "none"
  /\ resEnded = FALSE
  /\ body = NoMessage
  /\ jsonOut = NotSent
  /\ NoRequest

\* The handler of slot r up to the handlers being registered: the lorebook
\* is injected, the call made, buffer and reasoningStarted declared.
Begin(r) ==
  /\ closures[r].at = "arrived"
  /\ closures' = [closures EXCEPT
                    ![r].messages = injectLorebook(@),
                    ![r].at = "streaming",
                    ![closureOf(r)].buffer = <<>>,
                    ![closureOf(r)].reasoningStarted = FALSE]
  /\ UNCHANGED <<streamVars, loreVars, requestVars>>

\* response.data.on('data', ...) of slot r called with the next bytes
DataOf(r, n) ==
  /\ closures[r].at = "streaming" /\ ~closures[r].resEnded
  /\ closures[r].upstream # <<>>
  /\ LET size == IF n <= Len(closures[r].upstream) THEN n ELSE Len(closures[r].upstream)
         chunk == SubSeq(closures[r].upstream, 1, size)
         mine == closures[closureOf(r)]
         out == onData(mine.buffer, mine.reasoningStarted, SHOW_REASONING, chunk)
     IN  closures' = [closures EXCEPT
                        ![r].upstream = SubSeq(@, size + 1, Len(@)),
                        ![r].received = @ \o chunk,
                        ![r].chunks = Append(@, chunk),
                        ![r].processed = @ \o out.recs,
                        ![closureOf(r)].buffer = out.buffer,
                        ![closureOf(r)].reasoningStarted = out.started]
  /\ UNCHANGED <<streamVars, loreVars, requestVars>>

\* response.data.on('end', ...) of slot r
EndOf(r) ==
  /\ closures[r].at = "streaming" /\ ~closures[r].resEnded
  /\ closures[r].upstream = <<>>
  /\ closures' = [closures EXCEPT ![r].resEnded = TRUE]
  /\ UNCHANGED <<streamVars, loreVars, requestVars>>

\* response.data.on('error', ...) of slot r
ErrorOf(r) ==
  /\ closures[r].at = "streaming" /\ ~closures[r].resEnded
  /\ closures[r].upstream # <<>>
  /\ closures' = [closures EXCEPT ![r].resEnded = TRUE]
  /\ UNCHANGED <<streamVars, loreVars, requestVars>>

InFlightNext ==
  \E r \in Slots :
    \/ Begin(r)
    \/ \E n \in ChunkSizes : DataOf(r, n)
    \/ EndOf(r)
    \/ ErrorOf(r)

InFlightSpec == InFlightInit /\ [][InFlightNext]_vars

-----------------------------------------------------------------------------
(* Lorebook: properties *)

\* The directives of the conversations above, by what they say.
DirectiveTable ==
  {[text |-> <<"<lorebook:", SP, "Myth", SP, GT>>, kind |-> "activate", title |-> <<"myth">>],
   [text |-> <<"<LOREBOOK:", "tech", GT>>, kind |-> "activate", title |-> <<"tech">>],
   [text |-> <<"<DISABLE_LOREBOOK:", "Myth", GT>>, kind |-> "deactivate", title |-> <<"myth">>]}

\* The titles the caller's conversation names in directives of one kind.
named(kind) ==
  {d.title : d \in {x \in DirectiveTable :
                      /\ x.kind = kind
                      /\ \E i \in 1..Len(arrived) : startsWith(arrived[i].content, x.text)}}

\* The title of a loaded source, in lower case.
lowerTitle(lorebook) ==
  CASE lorebook.title = <<"Myth">> -> <<"myth">>
    [] lorebook.title = <<"Tech">> -> <<"tech">>
    [] lorebook.title = <<"Void">> -> <<"void">>
    [] lorebook.title = <<"Seal">> -> <<"seal">>

\* The source has an entry the conversation matches.
matches(lorebook) == entriesPushed(lorebook, arrived, 1) # <<>>

\* The matcher returned an entry of the source.
contributes(lorebook) ==
  \E i \in 1..Len(relevantEntries.sorted) :
    relevantEntries.sorted[i].lorebook = lorebook.title

\* C11: a loaded source with matching entries contributes entries exactly
\* when its lower-cased title is named in no deactivation directive and
\* either the conversation holds no activation directive or one of them
\* names the title; deactivation wins over activation and applies without
\* any activation directive too.
C11_SourceActivation ==
  injections = 1 =>
    \A b \in 1..Len(LOREBOOK_DATA) :
      LET lorebook == LOREBOOK_DATA[b]
      IN  matches(lorebook) =>
            (contributes(lorebook) <=>
               /\ lowerTitle(lorebook) \notin named("deactivate")
               /\ \/ named("activate") = {}
                  \/ lowerTitle(lorebook) \in named("activate"))

\* Myth is activated and deactivated in one conversation that matches it,
\* and is left out.
C11_Witness ==
  /\ injections = 1
  /\ LOREBOOK_DATA = <<Myth, Tech>>
  /\ matches(Myth)
  /\ <<"myth">> \in named("activate") \cap named("deactivate")
  /\ ~contributes(Myth)

\* A key of some entry of the source occurs in the conversation.
keywordMatch(lorebook) ==
  \E i \in 1..Len(lorebook.entries) :
    /\ lorebook.entries[i].keys.t = "array"
    /\ hasMatch(lorebook.entries[i], arrived)

\* The returned entries are in ascending order.
ascending(entries) ==
  \A i, j \in 1..Len(entries) : i < j => entries[i].order <= entries[j].order

\* C12 as stated: with no activation directive in the conversation and a
\* keyword match in each of the N loaded sources, the matcher returns
\* entries of all N sources, in ascending order.
C12_AllSources ==
  (/\ injections = 1
   /\ named("activate") = {}
   /\ \A b \in 1..Len(LOREBOOK_DATA) : keywordMatch(LOREBOOK_DATA[b]))
  => /\ \A b \in 1..Len(LOREBOOK_DATA) : contributes(LOREBOOK_DATA[b])
     /\ ascending(relevantEntries.sorted)

\* C12 amended: with no activation directive, no deactivation directive
\* naming a loaded source, and in each of the N loaded sources a matching
\* entry whose content is not empty, the matcher returns entries of all N
\* sources, in ascending order.
C12_AllSourcesNotDisabled ==
  (/\ injections = 1
   /\ named("activate") = {}
   /\ \A b \in 1..Len(LOREBOOK_DATA) :
        /\ lowerTitle(LOREBOOK_DATA[b]) \notin named("deactivate")
        /\ \E i \in 1..Len(LOREBOOK_DATA[b].entries) :
             LET entry == LOREBOOK_DATA[b].entries[i]
             IN  /\ entry.keys.t = "array"
                 /\ hasMatch(entry, arrived)
                 /\ entry.content # <<>>)
  => /\ \A b \in 1..Len(LOREBOOK_DATA) : contributes(LOREBOOK_DATA[b])
     /\ ascending(relevantEntries.sorted)

\* Two sources, no directive, three entries returned from the two of them.
C12_Witness ==
  /\ injections = 1
  /\ LOREBOOK_DATA = <<Tech, Myth>>
  /\ named("activate") = {} /\ named("deactivate") = {}
  /\ contributes(Tech) /\ contributes(Myth)
  /\ Len(relevantEntries.sorted) = 3
  /\ relevantEntries.sorted # relevantEntries.pushed

\* Every entry of every loaded source, in load order and then in entry
\* order, with the order it sorts by.
RECURSIVE allEntries(_)
allEntries(b) ==
  IF b > Len(LOREBOOK_DATA) THEN <<>>
  ELSE [i \in 1..Len(LOREBOOK_DATA[b].entries) |->
          [content |-> LOREBOOK_DATA[b].entries[i].content,
           lorebook |-> LOREBOOK_DATA[b].title,
           order |-> IF LOREBOOK_DATA[b].entries[i].order = NoNumber
                     THEN 0 ELSE LOREBOOK_DATA[b].entries[i].order.n]]
       \o allEntries(b + 1)

\* f maps the positions of a sequence to increasing positions of another.
increasing(f, n) == \A i, j \in 1..n : i < j => f[i] < f[j]

\* The entries were found in discovery order.
inDiscoveryOrder(entries) ==
  \E f \in [1..Len(entries) -> 1..Len(allEntries(1))] :
    /\ increasing(f, Len(entries))
    /\ \A k \in 1..Len(entries) :
         /\ entries[k].content = allEntries(1)[f[k]].content
         /\ entries[k].lorebook = allEntries(1)[f[k]].lorebook
         /\ entries[k].order = allEntries(1)[f[k]].order

\* The sequence holds the found entries, those of equal order in the
\* order they were found in.
stableArrangement(result, found) ==
  /\ Len(result) = Len(found)
  /\ \E f \in [1..Len(result) -> 1..Len(found)] :
       /\ \A i, j \in 1..Len(result) : i # j => f[i] # f[j]
       /\ \A i \in 1..Len(result) : result[i] = found[f[i]]
       /\ \A i, j \in 1..Len(result) :
            (i < j /\ result[i].order = result[j].order) => f[i] < f[j]

\* C13: the returned entries are sorted by ascending order, an entry
\* without order counting as 0; entries of equal order keep their discovery
\* order (source load order, then entry order); a second call with the same
\* conversation and sources returns the same sequence.
C13_Ordering ==
  injections = 1 =>
    /\ ascending(relevantEntries.sorted)
    /\ inDiscoveryOrder(relevantEntries.pushed)
    /\ stableArrangement(relevantEntries.sorted, relevantEntries.pushed)
    /\ findRelevantLoreEntries(arrived) = relevantEntries.sorted

\* The entry without order comes first, then the two entries of order 2,
\* the one of the source loaded first before the other.
C13_Witness ==
  /\ injections = 1
  /\ LOREBOOK_DATA = <<Tech, Myth>>
  /\ Len(relevantEntries.sorted) = 3
  /\ relevantEntries.sorted[1].content = EntryProper.content
  /\ relevantEntries.sorted[1].order = 0
  /\ relevantEntries.sorted[2].lorebook = Tech.title
  /\ relevantEntries.sorted[3].lorebook = Myth.title
  /\ relevantEntries.sorted[2].order = relevantEntries.sorted[3].order

\* The context block for the returned entries: the section marker and the
\* entry contents, a blank line between them.
contextBlock ==
  <<LORE_HEADER, NL>>
  \o join([i \in 1..Len(relevantEntries.sorted) |-> relevantEntries.sorted[i].content],
          <<NL, NL>>)

\* The positions of the caller's system messages.
systemMessages == {i \in 1..Len(arrived) : arrived[i].role = "system"}

\* C14: when the matcher returns an entry, the context block is appended to
\* the content of the first system message if there is one, and otherwise
\* one new system message holding only the block is put at index 0; every
\* other message keeps its role, content and place, and the conversation
\* grows by at most one message.
C14_Placement ==
  (injections = 1 /\ relevantEntries.sorted # <<>>) =>
    IF systemMessages # {}
    THEN LET first == CHOOSE i \in systemMessages : \A j \in systemMessages : i <= j
         IN  /\ Len(messages) = Len(arrived)
             /\ messages[first].role = "system"
             /\ messages[first].content = arrived[first].content \o <<NL, NL>> \o contextBlock
             /\ \A i \in (1..Len(arrived)) \ {first} : messages[i] = arrived[i]
    ELSE /\ Len(messages) = Len(arrived) + 1
         /\ messages[1] = [role |-> "system", content |-> contextBlock]
         /\ \A i \in 1..Len(arrived) : messages[i + 1] = arrived[i]

\* Two system messages: the block went to the first, the second is as sent.
C14_Witness ==
  /\ injections = 1
  /\ relevantEntries.sorted # <<>>
  /\ Len(arrived) = 2
  /\ systemMessages = {1, 2}
  /\ arrived[1] = arrived[2]
  /\ messages[1] # arrived[1]
  /\ messages[2] = arrived[2]

\* C15: when the matcher returns no entry, or the lorebook is disabled, the
\* injector returns the conversation unchanged; hence injecting again into
\* an injected conversation that matches no entry changes nothing; and the
\* injector is called exactly once per request, on either route.
C15_PassThrough ==
  /\ injections <= 1
  /\ injections = 0 => messages = arrived
  /\ injections = 1 =>
       /\ (~ENABLE_LOREBOOK \/ relevantEntries.sorted = <<>>) => messages = arrived
       /\ findRelevantLoreEntries(messages) = <<>> => injectLorebook(messages) = messages

\* A request that came by the proxy route, with sources loaded and nothing
\* matching: the handler has called the injector and the conversation is as
\* the caller sent it.
C15_Witness ==
  /\ ENABLE_LOREBOOK /\ LOREBOOK_DATA = <<Myth, Tech>>
  /\ injections = 1
  /\ relevantEntries.sorted = <<>>
  /\ \E i \in 1..Len(arrived) : arrived[i].content = <<"hello">>
  /\ url.originalUrl = PROXY_URL
  /\ messages = arrived

-----------------------------------------------------------------------------
(* Request mapping: properties *)

\* The handler in slot r has made its main call.
called(r) == handlers[r].at = "done"

\* The body of the main call of the handler in slot r.
sent(r) == Last(handlers[r].calls).body

\* C16: the backend request carries the caller's temperature and max_tokens
\* whenever they are supplied, 0 included, and the defaults 0.6 (6 tenths)
\* and 9024 exactly when they are absent; the stream flag is passed on as
\* the caller gave it.
C16_Defaults ==
  \A r \in Slots :
    called(r) =>
      /\ sent(r).temperature =
           IF request.temperature = NoNumber THEN Number(6) ELSE request.temperature
      /\ sent(r).max_tokens =
           IF request.max_tokens = NoNumber THEN Number(9024) ELSE request.max_tokens
      /\ request.stream # NoBoolean => sent(r).stream = request.stream

\* The identifiers the fallback can choose.
FallbackModels ==
  {<<"meta/llama-3.1-405b-instruct">>, <<"meta/llama-3.1-70b-instruct">>,
   <<"meta/llama-3.1-8b-instruct">>}

\* The model of the request is in the alias table.
aliased == request.model \in {<<"gpt-4", "o">>}

\* C17: a failure of the main backend call yields exactly one error
\* envelope, whose HTTP status and code are the upstream status when there
\* is one and 500 otherwise; a failure of the probe alone yields no error
\* response: the unknown model goes to the fallback, which ends in a
\* default model.
C17_ErrorEnvelope ==
  \A r \in Slots :
    /\ ~called(r) => handlers[r].responses = <<>>
    /\ called(r) => Len(handlers[r].responses) = 1
    /\ (called(r) /\ ~backend.call.ok) =>
         LET expected == IF backend.call.response THEN backend.call.status ELSE 500
             sentBack == handlers[r].responses[1]
         IN  /\ sentBack.status = expected
             /\ sentBack.error.code = expected
             /\ sentBack.error.type = "invalid_request_error"
    /\ (called(r) /\ backend.call.ok) =>
         /\ handlers[r].responses[1].status = 200
         /\ handlers[r].responses[1].error.type = "none"
         /\ (~aliased /\ backend.probe # "2xx") =>
              /\ sent(r).model \in FallbackModels
              /\ request.model = <<"mistral">> =>
                   sent(r).model = <<"meta/llama-3.1-8b-instruct">>

\* The probe threw and the main call was rejected with 429: the caller has
\* one envelope with status and code 429.
C17_Witness ==
  /\ backend.probe = "throws"
  /\ backend.call = Rejected(429)
  /\ ~aliased
  /\ called(1)
  /\ Len(handlers[1].calls) = 2
  /\ Len(handlers[1].responses) = 1
  /\ handlers[1].responses[1].status = 429

\* C19: every request sent to the backend, probe or main call, by either
\* route, bears the key the process was configured with; two requests
\* that differ only in what the caller supplied as credential (and in the
\* route) lead to the same backend requests.
C19_ServerCredential ==
  /\ \A r \in Slots : \A i \in 1..Len(handlers[r].calls) :
       handlers[r].calls[i].Authorization = <<"Bearer", SP, "nvapi-server-key">>
  /\ (called(1) /\ called(2)) => handlers[1].calls = handlers[2].calls

\* One request came with a key by the proxy route, the other with another
\* key by the main route; each has sent a probe and a main call.
C19_Witness ==
  /\ called(1) /\ called(2)
  /\ handlers[1].Authorization # <<>>
  /\ handlers[1].Authorization # handlers[2].Authorization
  /\ handlers[1].originalUrl = PROXY_URL
  /\ handlers[2].originalUrl = CHAT_URL
  /\ Len(handlers[1].calls) = 2

-----------------------------------------------------------------------------
(* Streamed requests in flight together: properties *)

\* The handler's locals and the lines it has processed, after one more chunk.
afterChunk(state, chunk) ==
  LET out == onData(state.buffer, state.started, SHOW_REASONING, chunk)
  IN  [buffer |-> out.buffer, started |-> out.started, recs |-> state.recs \o out.recs]

\* The handler run alone on the first n chunks a request has received.
RECURSIVE aloneAfter(_, _)
aloneAfter(chunks, n) ==
  IF n = 0 THEN [buffer |-> <<>>, started |-> FALSE, recs |-> <<>>]
  ELSE CHOOSE state \in {afterChunk(aloneAfter(chunks, n - 1), chunks[n])} : TRUE
alone(chunks) == aloneAfter(chunks, Len(chunks))

\* C18: however the data, end and error events of the requests in flight
\* interleave, what each request has emitted, its buffer and its
\* reasoningOpen flag are what the request alone would have after the same
\* chunks; and the loaded lore sources are as they were loaded, whatever
\* requests have been processed.
C18_Isolation ==
  /\ \A r \in Slots :
       closures[r].at = "streaming" =>
         /\ writesOf(closures[r].processed) = writesOf(alone(closures[r].chunks).recs)
         /\ closures[r].reasoningStarted = alone(closures[r].chunks).started
         /\ closures[r].buffer = alone(closures[r].chunks).buffer
  /\ LOREBOOK_DATA = <<Myth, Tech>>

\* Request 1 has the reasoning phase open and bytes buffered while request
\* 2 has emitted content with its own flag unset.
C18_Witness ==
  /\ SHOW_REASONING
  /\ closures[1].at = "streaming" /\ closures[2].at = "streaming"
  /\ closures[1].reasoningStarted /\ closures[1].buffer # <<>>
  /\ ~closures[2].reasoningStarted
  /\ Len(closures[2].processed) >= 1
  /\ ~closures[1].resEnded /\ ~closures[2].resEnded
  /\ Len(closures[1].messages) = 2

-----------------------------------------------------------------------------
(* Reasoning markers: properties *)

\* The opening and closing markers in what has been written, in order.
markersWritten ==
  SelectSeq(Flatten(written), LAMBDA c : c \in {"<think>", "</think>"})

\* C20: with the reasoning display on, after any sequence of chunks the
\* markers emitted so far alternate, starting with an opening marker; there
\* is one more opening than closing marker when reasoningOpen is set and as
\* many when it is not; so no closing marker comes without an unmatched
\* opening marker before it.
C20_MarkerBalance ==
  (stream /\ SHOW_REASONING) =>
    /\ \A i \in 1..Len(markersWritten) :
         markersWritten[i] = IF i % 2 = 1 THEN "<think>" ELSE "</think>"
    /\ Len(markersWritten) % 2 = IF reasoningStarted THEN 1 ELSE 0

\* A reasoning phase was opened and closed and a second one is open.
C20_Witness ==
  /\ stream /\ SHOW_REASONING
  /\ markersWritten = <<"<think>", "</think>", "<think>">>
  /\ reasoningStarted

====
